---- MODULE Spec2Model ----
(***************************************************************************)
(* Swap-based synchronisation of the proxy pool (mubeng/pool-sync).        *)
(*                                                                         *)
(* The JavaScript sources of lib/database.js (SQLiteCloudClient) and       *)
(* lib/sync-engine.js (ProxySyncEngine) are found in src/README.md; the    *)
(* configuration, the record type and the parser are in src/lib/config.js. *)
(*                                                                         *)
(* The store is modelled as SQLite behaves: DDL is transactional, a        *)
(* renamed table keeps its indexes and trigger, index names are global.    *)
(* `committed` is what any other connection (an external reader) sees,     *)
(* `work` is what the client's own connection sees; they differ only while *)
(* a transaction is open on the connection.  A statement that fails has no *)
(* effect on the store.  Statement latency is 0 ms: the clock read by      *)
(* Date.now() advances in the backoff waits of executeWithRetry.           *)
(***************************************************************************)
EXTENDS Integers, Sequences, FiniteSets, TLC

(* ------------------------------ bounds -------------------------------- *)
\* longest input batch (number of parsed lines)
MaxLen == 3
\* largest configured chunk size (BATCH_SIZE)
MaxBatchSize == 2
\* largest configured attempt limit (MAX_RETRIES)
MaxConfigRetries == 2
\* number of statement failures injected in one run
MaxFaults == 3
\* ParseSpec: most lines in the live file
MaxLines == 3
\* RetrySpec: largest maxRetries / delay / number of failing invocations
MaxAttempts == 4
\* chunk sizes below 1: 0 and the negative sizes down to 0 - MaxNegBatch
MaxNegBatch == 1
\* statements of one attempt after which no further chunk is begun
MaxLog == 12
MaxDelay == 3

(* ------------------------- program constants -------------------------- *)
\* executeWithRetry(queryFn, maxRetries = 3, delay = 5000)
DefaultMaxRetries == 3
DefaultDelay == 5000
\* config.retryDelay: parseInt(process.env.RETRY_DELAY || '5000')
ConfigRetryDelay == 5000

Keys == {"a", "b"}
DistinctKeys == <<"a", "b", "c", "d", "e">>
NoError == [msg |-> "none", call |-> 0]
Null == "null"
\* lastSyncTime: null
NoTime == -1

\* new ProxyRecord(data): the key and the other eleven fields (val)
ProxyRecord(proxy, val) == [proxy |-> proxy, val |-> val]

\* The batches handed over by the parser: every sequence of keys up to MaxLen,
\* the record of line n carrying payload n (so that two records with the same
\* key always differ in their other fields), and one batch of MaxLen records
\* with pairwise different keys (the longest deduplicated batch).
Batches ==
  UNION { { [n \in 1..len |-> ProxyRecord(ks[n], n)] : ks \in [1..len -> Keys] }
          : len \in 0..MaxLen }
  \cup { [n \in 1..MaxLen |-> ProxyRecord(DistinctKeys[n], n)] }

(* ------------------------------ the store ------------------------------ *)
\* table names: 'pool', 'pool_temp_' + Date.now(), 'pool_backup_' + Date.now()
PoolName == <<"pool", 0>>
TempName(t) == <<"pool_temp_", t>>
BackupName(t) == <<"pool_backup_", t>>

\* schema.sql: the six secondary indexes, in the order the client recreates them
IndexNames == << "idx_pool_protocol", "idx_pool_country", "idx_pool_city",
                 "idx_pool_host", "idx_pool_region", "idx_pool_hostname" >>
AllIndexes == { IndexNames[k] : k \in 1..Len(IndexNames) }

EmptyTable == [rows |-> {}, idx |-> {}, trg |-> FALSE]

\* the pool table before the run: bootstrap schema, rows of an earlier sync
PriorRows == { ProxyRecord("a", 0), ProxyRecord("c", 0) }
InitialStore == (PoolName :> [rows |-> PriorRows, idx |-> AllIndexes, trg |-> TRUE])

HasTable(s, n) == n \in DOMAIN s
HasKey(s, n, proxy) == \E r \in s[n].rows : r.proxy = proxy
IndexExists(s, name) == \E n \in DOMAIN s : name \in s[n].idx
TriggerExists(s) == \E n \in DOMAIN s : s[n].trg

\* CREATE TABLE n (...)
CreateTable(s, n) == [m \in DOMAIN s \cup {n} |-> IF m = n THEN EmptyTable ELSE s[m]]
\* INSERT INTO n (...) VALUES (...)
InsertRow(s, n, r) == [s EXCEPT ![n].rows = @ \cup {r}]
\* ALTER TABLE from RENAME TO to: indexes and trigger stay with the table
RenameTable(s, from, to) ==
  [m \in (DOMAIN s \ {from}) \cup {to} |-> IF m = to THEN s[from] ELSE s[m]]
\* DROP TABLE n: its indexes and trigger go with it
DropTable(s, n) == [m \in DOMAIN s \ {n} |-> s[m]]
\* CREATE INDEX IF NOT EXISTS name ON n(...)
CreateIndexIfNotExists(s, name, n) ==
  IF IndexExists(s, name) THEN s ELSE [s EXCEPT ![n].idx = @ \cup {name}]
\* CREATE TRIGGER IF NOT EXISTS update_pool_timestamp AFTER UPDATE ON n
CreateTriggerIfNotExists(s, n) ==
  IF TriggerExists(s) THEN s ELSE [s EXCEPT ![n].trg = TRUE]
\* SELECT COUNT(*) FROM n
CountRows(s, n) == Cardinality(s[n].rows)

(* --------------------------- pure functions ---------------------------- *)
\* mutant: cleanRecords.unshift(record), the kept records come out reversed
RECURSIVE DedupLoopUnshift(_, _, _, _, _)
DedupLoopUnshift(recs, n, uniqueProxies, duplicatesFound, cleanRecords) ==
  IF n > Len(recs)
  THEN [cleanRecords |-> cleanRecords, duplicatesFound |-> duplicatesFound]
  ELSE IF recs[n].proxy \in uniqueProxies
       THEN DedupLoopUnshift(recs, n + 1, uniqueProxies,
                             Append(duplicatesFound, recs[n].proxy), cleanRecords)
       ELSE DedupLoopUnshift(recs, n + 1, uniqueProxies \cup {recs[n].proxy},
                             duplicatesFound, <<recs[n]>> \o cleanRecords)
\* mutant: a duplicated key is reported once, however often it recurs
RECURSIVE DedupLoopReportsKeyOnce(_, _, _, _, _)
DedupLoopReportsKeyOnce(recs, n, uniqueProxies, duplicatesFound, cleanRecords) ==
  IF n > Len(recs)
  THEN [cleanRecords |-> cleanRecords, duplicatesFound |-> duplicatesFound]
  ELSE IF recs[n].proxy \in uniqueProxies
       THEN DedupLoopReportsKeyOnce(recs, n + 1, uniqueProxies,
              IF \E m \in 1..Len(duplicatesFound) : duplicatesFound[m] = recs[n].proxy
              THEN duplicatesFound ELSE Append(duplicatesFound, recs[n].proxy),
              cleanRecords)
       ELSE DedupLoopReportsKeyOnce(recs, n + 1, uniqueProxies \cup {recs[n].proxy},
                                    duplicatesFound, Append(cleanRecords, recs[n]))
\* syncProxiesWithSwap: the duplicate check loop over records
RECURSIVE DedupLoop(_, _, _, _, _)
DedupLoop(recs, n, uniqueProxies, duplicatesFound, cleanRecords) ==
  IF n > Len(recs)
  THEN [cleanRecords |-> cleanRecords, duplicatesFound |-> duplicatesFound]
  ELSE IF recs[n].proxy \in uniqueProxies
       THEN DedupLoop(recs, n + 1, uniqueProxies,
                      Append(duplicatesFound, recs[n].proxy), cleanRecords)
       ELSE DedupLoop(recs, n + 1, uniqueProxies \cup {recs[n].proxy},
                      duplicatesFound, Append(cleanRecords, recs[n]))
\* mutant: the last occurrence of a key wins
DedupKeepLast(recs) ==
  LET last == { n \in 1..Len(recs) :
                  \A m \in (n + 1)..Len(recs) : recs[m].proxy # recs[n].proxy }
      F[n \in 0..Len(recs)] ==
        IF n = 0 THEN <<>>
        ELSE IF n \in last THEN Append(F[n - 1], recs[n]) ELSE F[n - 1]
  IN [cleanRecords |-> F[Len(recs)],
      duplicatesFound |-> DedupLoop(recs, 1, {}, <<>>, <<>>).duplicatesFound]
Dedup(recs) == DedupLoop(recs, 1, {}, <<>>, <<>>)

\* Math.pow(2, e)
RECURSIVE Pow2(_)
Pow2(e) == IF e <= 0 THEN 1 ELSE 2 * Pow2(e - 1)
\* mutant: linear instead of exponential backoff
WaitTimeLinear(d, att) == d * att
\* const waitTime = delay * Math.pow(2, attempt - 1)
WaitTime(d, att) == d * Pow2(att - 1)

Min(x, y) == IF x < y THEN x ELSE y
\* mutant: the chunk takes the record at its end index as well
SliceInclusive(s, from, to) == SubSeq(s, from + 1, Min(to + 1, Len(s)))
\* Array.prototype.slice: a negative index counts from the end of the array,
\* an index beyond either end is clamped to that end
RelativeIndex(s, x) == IF x < 0 THEN (IF Len(s) + x < 0 THEN 0 ELSE Len(s) + x)
                       ELSE Min(x, Len(s))
\* cleanRecords.slice(i, i + batchSize)
Slice(s, from, to) == SubSeq(s, RelativeIndex(s, from) + 1, RelativeIndex(s, to))

VARIABLES
  pc,               \* position of the single thread of control
  config,           \* the configuration struct
  records,          \* output of parser.parseFile
  batchSize,        \* syncProxiesWithSwap parameter
  cleanRecords, duplicatesFound,
  queryFn,          \* the operation given to executeWithRetry
  maxRetries, delay, attempt,   \* executeWithRetry parameters and loop counter
  calls,            \* invocations of queryFn so far
  waits,            \* the backoff waits performed, in order
  opFails,          \* RetrySpec: the operation fails on its first opFails calls
  now,              \* Date.now()
  tempTableName, backupTableName,
  i, batch, j,      \* chunk offset, current chunk, rows of it inserted
  k,                \* next index of IndexNames to recreate
  tempCount,        \* count read from the staging table (-1: not read yet)
  work, committed, inTxn,   \* the store
  db,               \* this.db: Null or "open"
  error,            \* the exception in flight
  returned,         \* value returned by executeWithRetry (-1: nothing yet)
  result,           \* value returned by sync(), read at pc = "done"
  dbCount,
  stats,
  faults,           \* statement failures injected so far
  log,              \* statements sent in the current attempt: <<name, ok>>
  pool0,            \* rows of pool before the run
  absent,           \* syncProxiesWithSwap was given no records argument (null)
  run,              \* number of the call of syncProxiesWithSwap under way
  firstRun,         \* what the first of two calls in a row left behind
  otherTemp,        \* staging name computed by a concurrently running client
  tempNames,        \* staging names computed by this client's attempts, in order
  disconnects,      \* invocations of dbClient.disconnect()
  failedDrops,      \* the tables whose DROP TABLE was rejected
  content,          \* the live file: its lines, each a sequence of fields
  parser,           \* locals of ProxyParser.parseFile
  env,              \* what the health check finds: settings, file, store
  checks,           \* the health check's checks object
  exitCode          \* process.exit code of the health check (-1: none yet)

constVars == << config, queryFn, opFails, pool0 >>
callVars == << records, batchSize, cleanRecords, duplicatesFound >>
retryVars == << maxRetries, delay, attempt, calls, waits, now >>
attemptVars == << tempTableName, backupTableName, i, batch, j, k, tempCount >>
storeVars == << work, committed, inTxn >>
engineVars == << db, returned, result, dbCount, stats >>
driverVars == << absent, run, firstRun, otherTemp >>
histVars == << tempNames, disconnects, failedDrops >>
scriptVars == << content, parser, env, checks, exitCode >>
vars == << pc, constVars, callVars, retryVars, attemptVars, storeVars, engineVars, error,
           faults, log, driverVars, histVars, scriptVars >>

(* ------------------------- statement execution ------------------------- *)
\* error objects: the message and the queryFn invocation that raised it
Err(msg) == [msg |-> msg, call |-> calls]

\* A statement whose precondition holds in the store may still fail (network,
\* timeout, busy store); one whose precondition does not hold always fails.
StmtFails(pre) ==
  \/ ~pre /\ faults' = faults
  \/ pre /\ faults < MaxFaults /\ faults' = faults + 1

\* effect of a data or schema statement: visible to the connection at once,
\* to other connections at once only in autocommit mode
Apply(s) ==
  /\ work' = s
  /\ committed' = IF inTxn THEN committed ELSE s
  /\ inTxn' = inTxn

\* BEGIN TRANSACTION
BeginTransaction ==
  /\ inTxn' = TRUE
  /\ UNCHANGED << work, committed >>
\* COMMIT
Commit ==
  /\ committed' = work
  /\ inTxn' = FALSE
  /\ work' = work
\* ROLLBACK
Rollback ==
  /\ work' = committed
  /\ inTxn' = FALSE
  /\ committed' = committed

Sent(name, ok) == log' = Append(log, <<name, ok>>)

InitStats == [totalSyncs |-> 0, successfulSyncs |-> 0, failedSyncs |-> 0,
              lastRecordCount |-> 0, lastSyncTime |-> NoTime, lastError |-> Null]

\* config.js: MAX_RETRIES '3', RETRY_DELAY '5000', BATCH_SIZE '1000'
DefaultConfig == [maxRetries |-> 3, retryDelay |-> ConfigRetryDelay, batchSize |-> 1000]
Configs == { [maxRetries |-> m, retryDelay |-> ConfigRetryDelay, batchSize |-> b] :
             m \in 1..MaxConfigRetries, b \in 1..MaxBatchSize }

\* parseFile has not run; the health check has not run
NoParser == [lines |-> <<>>, i |-> 0, records |-> <<>>, validCount |-> 0,
             invalidCount |-> 0]
NoChecks == [database |-> "unknown", liveFile |-> "unknown",
             configuration |-> "unknown", overallStatus |-> "unknown"]
NoEnv == [url |-> TRUE, path |-> TRUE, maxRetries |-> 3, batchSize |-> 1000,
          fileExists |-> TRUE, statOk |-> TRUE, connectOk |-> TRUE, selectOk |-> TRUE,
          outputOk |-> TRUE]
\* no first call has returned yet
NoRun == [pool |-> EmptyTable, clean |-> FALSE]

InitCommon ==
  /\ records = <<>> /\ batchSize = 0
  /\ cleanRecords = <<>> /\ duplicatesFound = <<>>
  /\ calls = 0 /\ waits = <<>> /\ now = 0
  /\ tempTableName = PoolName /\ backupTableName = PoolName
  /\ i = 0 /\ batch = <<>> /\ j = 0 /\ k = 1 /\ tempCount = -1
  /\ work = InitialStore /\ committed = InitialStore /\ inTxn = FALSE
  /\ pool0 = InitialStore[PoolName].rows
  /\ error = NoError /\ returned = -1 /\ result = FALSE /\ dbCount = 0
  /\ stats = InitStats /\ faults = 0 /\ log = <<>>
  /\ run = 1 /\ firstRun = NoRun /\ otherTemp = PoolName
  /\ tempNames = <<>> /\ disconnects = 0 /\ failedDrops = {}
  /\ parser = NoParser /\ checks = NoChecks /\ exitCode = -1

\* new ProxySyncEngine(config, logger), about to run sync()
Init ==
  /\ InitCommon
  /\ pc = "sync"
  /\ content = <<>> /\ env = NoEnv
  /\ config \in Configs
  /\ queryFn = "swap" /\ opFails = 0
  /\ maxRetries = 0 /\ delay = 0 /\ attempt = 0
  /\ db = Null
  /\ absent = FALSE

(* ------------------------- ProxySyncEngine.sync ------------------------ *)
\* sync(): step 1, parser.parseFile and the empty check
ParseFile ==
  /\ pc = "sync"
  /\ \/ /\ error' = Err("File not found")
        /\ pc' = "sync_catch"
        /\ UNCHANGED << records, stats, result >>
     \/ \E recs \in Batches :
          /\ records' = recs
          /\ IF Len(recs) = 0
             THEN /\ stats' = [stats EXCEPT !.failedSyncs = @ + 1]
                  /\ result' = FALSE
                  /\ pc' = "done"
             ELSE /\ pc' = "connect"
                  /\ UNCHANGED << stats, result >>
          /\ error' = error
  /\ UNCHANGED << constVars, scriptVars, driverVars, histVars, batchSize, cleanRecords, duplicatesFound, retryVars,
                  attemptVars, storeVars, db, returned, dbCount, faults, log >>

\* sync(): step 2, dbClient.connect()
Connect ==
  /\ pc = "connect"
  /\ \/ /\ db' = "open"
        /\ pc' = "swap_entry"
        /\ UNCHANGED << stats, result >>
     \/ /\ db' = Null
        /\ stats' = [stats EXCEPT !.failedSyncs = @ + 1]
        /\ result' = FALSE
        /\ pc' = "done"
  /\ UNCHANGED << constVars, scriptVars, driverVars, histVars, callVars, retryVars, attemptVars, storeVars, returned,
                  dbCount, error, faults, log >>

(* -------------------- SQLiteCloudClient.syncProxiesWithSwap ------------ *)
\* mutant: no empty check, an empty batch is staged and swapped in like any other
SyncProxiesWithSwapNoEmptyCheck ==
  /\ pc = "swap_entry"
  /\ batchSize' = config.batchSize
  /\ cleanRecords' = Dedup(records).cleanRecords
  /\ duplicatesFound' = Dedup(records).duplicatesFound
  /\ maxRetries' = DefaultMaxRetries
  /\ delay' = DefaultDelay
  /\ attempt' = 1
  /\ pc' = "retry_loop"
  /\ UNCHANGED << constVars, scriptVars, driverVars, histVars, records, calls, waits, now,
                  attemptVars, storeVars, engineVars, error, faults, log >>

\* the empty check, the duplicate check and the call of executeWithRetry
SyncProxiesWithSwap ==
  /\ pc = "swap_entry"
  /\ batchSize' = config.batchSize
  /\ IF absent \/ Len(records) = 0
     THEN /\ returned' = 0
          /\ pc' = "verify_count"
          /\ UNCHANGED << cleanRecords, duplicatesFound, maxRetries, delay, attempt >>
     ELSE /\ cleanRecords' = Dedup(records).cleanRecords
          /\ duplicatesFound' = Dedup(records).duplicatesFound
          /\ maxRetries' = DefaultMaxRetries
          /\ delay' = DefaultDelay
          /\ attempt' = 1
          /\ pc' = "retry_loop"
          /\ returned' = returned
  /\ UNCHANGED << constVars, scriptVars, driverVars, histVars, records, calls, waits, now, attemptVars, storeVars, db,
                  result, dbCount, stats, error, faults, log >>

(* -------------------- SQLiteCloudClient.executeWithRetry --------------- *)
\* for (attempt <= maxRetries) try { return await queryFn() }
ExecuteWithRetry ==
  /\ pc = "retry_loop"
  /\ IF attempt <= maxRetries
     THEN /\ calls' = calls + 1
          /\ pc' = IF queryFn = "swap" THEN "create_temp" ELSE "op"
     ELSE /\ calls' = calls
          /\ pc' = IF queryFn = "swap" THEN "verify_count" ELSE "returned"
  /\ UNCHANGED << constVars, scriptVars, driverVars, histVars, callVars, maxRetries, delay, attempt, waits, now,
                  attemptVars, storeVars, engineVars, error, faults, log >>

\* mutant: the backoff wait is performed before the last attempt's rethrow too
ExecuteWithRetryCatchWaitsFirst ==
  /\ pc = "retry_catch"
  /\ waits' = Append(waits, WaitTime(delay, attempt))
  /\ now' = now + WaitTime(delay, attempt)
  /\ IF attempt = maxRetries
     THEN /\ pc' = IF queryFn = "swap" THEN "disconnect" ELSE "failed"
          /\ UNCHANGED << attempt, error >>
     ELSE /\ attempt' = attempt + 1
          /\ error' = NoError
          /\ pc' = "retry_loop"
  /\ UNCHANGED << constVars, scriptVars, driverVars, histVars, callVars, maxRetries, delay, calls, attemptVars,
                  storeVars, engineVars, faults, log >>

\* catch (error): rethrow after the last attempt, else wait and go round
ExecuteWithRetryCatch ==
  /\ pc = "retry_catch"
  /\ IF attempt = maxRetries
     THEN /\ pc' = IF queryFn = "swap" THEN "disconnect" ELSE "failed"
          /\ UNCHANGED << attempt, waits, now, error >>
     ELSE /\ waits' = Append(waits, WaitTime(delay, attempt))
          /\ now' = now + WaitTime(delay, attempt)
          /\ attempt' = attempt + 1
          /\ error' = NoError
          /\ pc' = "retry_loop"
  /\ UNCHANGED << constVars, scriptVars, driverVars, histVars, callVars, maxRetries, delay, calls, attemptVars,
                  storeVars, engineVars, faults, log >>

(* ---------------- one attempt: the queryFn of syncProxiesWithSwap ------ *)
\* const tempTableName = 'pool_temp_' + Date.now(); CREATE TABLE tempTableName
CreateTempTable ==
  /\ pc = "create_temp"
  /\ tempTableName' = TempName(now)
  /\ tempNames' = Append(tempNames, TempName(now))
  /\ i' = 0
  /\ tempCount' = -1
  /\ LET pre == ~HasTable(work, TempName(now)) IN
     \/ /\ pre
        /\ Apply(CreateTable(work, TempName(now)))
        /\ log' = << <<"CREATE TABLE", TRUE>> >>
        /\ pc' = "chunk_loop"
        /\ UNCHANGED << error, faults >>
     \/ /\ StmtFails(pre)
        /\ log' = << <<"CREATE TABLE", FALSE>> >>
        /\ error' = Err("CREATE TABLE")
        /\ pc' = "cleanup"
        /\ UNCHANGED storeVars
  /\ UNCHANGED << constVars, scriptVars, driverVars, disconnects, failedDrops, callVars,
                  retryVars, backupTableName, batch, j, k, engineVars >>

\* for (i < cleanRecords.length): batch = slice(i, i + batchSize); BEGIN TRANSACTION
ChunkBegin ==
  /\ pc = "chunk_loop"
  /\ i < Len(cleanRecords)
  /\ batch' = Slice(cleanRecords, i, i + batchSize)
  /\ j' = 0
  /\ LET pre == ~inTxn IN
     \/ /\ pre
        /\ BeginTransaction
        /\ Sent("BEGIN", TRUE)
        /\ pc' = IF Len(Slice(cleanRecords, i, i + batchSize)) = 0
                 THEN "chunk_commit" ELSE "insert"
        /\ UNCHANGED << error, faults >>
     \/ /\ StmtFails(pre)
        /\ Sent("BEGIN", FALSE)
        /\ error' = Err("BEGIN")
        /\ pc' = "cleanup"
        /\ UNCHANGED storeVars
  /\ UNCHANGED << constVars, scriptVars, driverVars, histVars, callVars, retryVars, tempTableName, backupTableName,
                  i, k, tempCount, engineVars >>

\* mutant: the rows are inserted into pool itself, as bulkInsertProxies does
InsertRecordIntoPool ==
  /\ pc = "insert"
  /\ LET record == batch[j + 1]
         pre == HasTable(work, PoolName) /\ ~HasKey(work, PoolName, record.proxy) IN
     \/ /\ pre
        /\ Apply(InsertRow(work, PoolName, record))
        /\ Sent("INSERT", TRUE)
        /\ j' = j + 1
        /\ pc' = IF j + 1 = Len(batch) THEN "chunk_commit" ELSE "insert"
        /\ UNCHANGED << error, faults >>
     \/ /\ StmtFails(pre)
        /\ Sent("INSERT", FALSE)
        /\ error' = Err("INSERT")
        /\ pc' = "chunk_rollback"
        /\ UNCHANGED << storeVars, j >>
  /\ UNCHANGED << constVars, scriptVars, driverVars, histVars, callVars, retryVars, tempTableName, backupTableName,
                  i, batch, k, tempCount, engineVars >>

\* for (const record of batch): INSERT INTO tempTableName
InsertRecord ==
  /\ pc = "insert"
  /\ LET record == batch[j + 1]
         pre == HasTable(work, tempTableName)
                /\ ~HasKey(work, tempTableName, record.proxy) IN
     \/ /\ pre
        /\ Apply(InsertRow(work, tempTableName, record))
        /\ Sent("INSERT", TRUE)
        /\ j' = j + 1
        /\ pc' = IF j + 1 = Len(batch) THEN "chunk_commit" ELSE "insert"
        /\ UNCHANGED << error, faults >>
     \/ /\ StmtFails(pre)
        /\ Sent("INSERT", FALSE)
        /\ error' = Err("INSERT")
        /\ pc' = "chunk_rollback"
        /\ UNCHANGED << storeVars, j >>
  /\ UNCHANGED << constVars, scriptVars, driverVars, histVars, callVars, retryVars, tempTableName, backupTableName,
                  i, batch, k, tempCount, engineVars >>

\* COMMIT of the chunk; i += batchSize
ChunkCommit ==
  /\ pc = "chunk_commit"
  /\ LET pre == inTxn IN
     \/ /\ pre
        /\ Commit
        /\ Sent("COMMIT", TRUE)
        /\ i' = i + batchSize
        /\ pc' = "chunk_loop"
        /\ UNCHANGED << error, faults >>
     \/ /\ StmtFails(pre)
        /\ Sent("COMMIT", FALSE)
        /\ error' = Err("COMMIT")
        /\ pc' = "chunk_rollback"
        /\ UNCHANGED << storeVars, i >>
  /\ UNCHANGED << constVars, scriptVars, driverVars, histVars, callVars, retryVars, tempTableName, backupTableName,
                  batch, j, k, tempCount, engineVars >>

\* catch (error) { ROLLBACK; throw error } of the chunk
ChunkRollback ==
  /\ pc = "chunk_rollback"
  /\ LET pre == inTxn IN
     \/ /\ pre
        /\ Rollback
        /\ Sent("ROLLBACK", TRUE)
        /\ UNCHANGED << error, faults >>
     \/ /\ StmtFails(pre)
        /\ Sent("ROLLBACK", FALSE)
        /\ error' = Err("ROLLBACK")
        /\ UNCHANGED storeVars
  /\ pc' = "cleanup"
  /\ UNCHANGED << constVars, scriptVars, driverVars, histVars, callVars, retryVars, attemptVars, engineVars >>

\* mutant: a count mismatch is tolerated
VerifyTempCountTolerant ==
  /\ pc = "chunk_loop"
  /\ i >= Len(cleanRecords)
  /\ LET pre == HasTable(work, tempTableName) IN
     \/ /\ pre
        /\ \E count \in {CountRows(work, tempTableName), 0} :
             /\ faults' = IF count = CountRows(work, tempTableName)
                          THEN faults ELSE faults + 1
             /\ faults' <= MaxFaults
             /\ tempCount' = count
             /\ error' = error
             /\ pc' = "swap_begin"
        /\ Sent("SELECT COUNT", TRUE)
     \/ /\ StmtFails(pre)
        /\ Sent("SELECT COUNT", FALSE)
        /\ error' = Err("SELECT COUNT")
        /\ pc' = "cleanup"
        /\ tempCount' = tempCount
  /\ UNCHANGED << constVars, scriptVars, driverVars, histVars, callVars, retryVars, tempTableName, backupTableName,
                  i, batch, j, k, storeVars, engineVars >>

\* SELECT COUNT(*) FROM tempTableName; tempCount = result[0]?.count || 0;
\* if (tempCount !== cleanRecords.length) throw
VerifyTempCount ==
  /\ pc = "chunk_loop"
  /\ i >= Len(cleanRecords)
  /\ LET pre == HasTable(work, tempTableName) IN
     \/ /\ pre
        /\ \E count \in {CountRows(work, tempTableName), 0} :
             /\ faults' = IF count = CountRows(work, tempTableName)
                          THEN faults ELSE faults + 1
             /\ faults' <= MaxFaults
             /\ tempCount' = count
             /\ IF count # Len(cleanRecords)
                THEN /\ error' = Err("Temp table count mismatch")
                     /\ pc' = "cleanup"
                ELSE /\ error' = error
                     /\ pc' = "swap_begin"
        /\ Sent("SELECT COUNT", TRUE)
     \/ /\ StmtFails(pre)
        /\ Sent("SELECT COUNT", FALSE)
        /\ error' = Err("SELECT COUNT")
        /\ pc' = "cleanup"
        /\ tempCount' = tempCount
  /\ UNCHANGED << constVars, scriptVars, driverVars, histVars, callVars, retryVars, tempTableName, backupTableName,
                  i, batch, j, k, storeVars, engineVars >>

\* mutant: the renames run without an enclosing transaction
SwapBeginNoTransaction ==
  /\ pc = "swap_begin"
  /\ Sent("BEGIN SWAP", TRUE)
  /\ pc' = "rename_pool"
  /\ UNCHANGED << constVars, scriptVars, driverVars, histVars, callVars, retryVars, attemptVars, storeVars, engineVars,
                  error, faults >>

\* BEGIN TRANSACTION of the swap
SwapBegin ==
  /\ pc = "swap_begin"
  /\ LET pre == ~inTxn IN
     \/ /\ pre
        /\ BeginTransaction
        /\ Sent("BEGIN SWAP", TRUE)
        /\ pc' = "rename_pool"
        /\ UNCHANGED << error, faults >>
     \/ /\ StmtFails(pre)
        /\ Sent("BEGIN SWAP", FALSE)
        /\ error' = Err("BEGIN")
        /\ pc' = "cleanup"
        /\ UNCHANGED storeVars
  /\ UNCHANGED << constVars, scriptVars, driverVars, histVars, callVars, retryVars, attemptVars, engineVars >>

\* mutant: the first rename takes effect outside the swap's transaction
RenamePoolToBackupAutocommit ==
  /\ pc = "rename_pool"
  /\ backupTableName' = BackupName(now)
  /\ LET pre == HasTable(work, PoolName) /\ ~HasTable(work, BackupName(now))
               /\ HasTable(committed, PoolName) IN
     \/ /\ pre
        /\ work' = RenameTable(work, PoolName, BackupName(now))
        /\ committed' = RenameTable(committed, PoolName, BackupName(now))
        /\ inTxn' = inTxn
        /\ Sent("RENAME pool", TRUE)
        /\ pc' = "rename_temp"
        /\ UNCHANGED << error, faults >>
     \/ /\ StmtFails(pre)
        /\ Sent("RENAME pool", FALSE)
        /\ error' = Err("RENAME pool")
        /\ pc' = "swap_rollback"
        /\ UNCHANGED storeVars
  /\ UNCHANGED << constVars, scriptVars, driverVars, histVars, callVars, retryVars, tempTableName,
                  i, batch, j, k, tempCount, engineVars >>

\* backupTableName = 'pool_backup_' + Date.now(); ALTER TABLE pool RENAME TO it
RenamePoolToBackup ==
  /\ pc = "rename_pool"
  /\ backupTableName' = BackupName(now)
  /\ LET pre == HasTable(work, PoolName) /\ ~HasTable(work, BackupName(now)) IN
     \/ /\ pre
        /\ Apply(RenameTable(work, PoolName, BackupName(now)))
        /\ Sent("RENAME pool", TRUE)
        /\ pc' = "rename_temp"
        /\ UNCHANGED << error, faults >>
     \/ /\ StmtFails(pre)
        /\ Sent("RENAME pool", FALSE)
        /\ error' = Err("RENAME pool")
        /\ pc' = "swap_rollback"
        /\ UNCHANGED storeVars
  /\ UNCHANGED << constVars, scriptVars, driverVars, histVars, callVars, retryVars, tempTableName, i, batch, j, k,
                  tempCount, engineVars >>

\* ALTER TABLE tempTableName RENAME TO pool
RenameTempToPool ==
  /\ pc = "rename_temp"
  /\ LET pre == HasTable(work, tempTableName) /\ ~HasTable(work, PoolName) IN
     \/ /\ pre
        /\ Apply(RenameTable(work, tempTableName, PoolName))
        /\ Sent("RENAME temp", TRUE)
        /\ pc' = "swap_commit"
        /\ UNCHANGED << error, faults >>
     \/ /\ StmtFails(pre)
        /\ Sent("RENAME temp", FALSE)
        /\ error' = Err("RENAME temp")
        /\ pc' = "swap_rollback"
        /\ UNCHANGED storeVars
  /\ UNCHANGED << constVars, scriptVars, driverVars, histVars, callVars, retryVars, attemptVars, engineVars >>

\* COMMIT of the swap
SwapCommit ==
  /\ pc = "swap_commit"
  /\ LET pre == inTxn IN
     \/ /\ pre
        /\ Commit
        /\ Sent("COMMIT SWAP", TRUE)
        /\ k' = 1
        /\ pc' = "indexes"
        /\ UNCHANGED << error, faults >>
     \/ /\ StmtFails(pre)
        /\ Sent("COMMIT SWAP", FALSE)
        /\ error' = Err("COMMIT")
        /\ pc' = "swap_rollback"
        /\ UNCHANGED << storeVars, k >>
  /\ UNCHANGED << constVars, scriptVars, driverVars, histVars, callVars, retryVars, tempTableName, backupTableName,
                  i, batch, j, tempCount, engineVars >>

\* mutant: the index statements are not guarded, their failure reaches the
\* swap's catch block
CreateIndexFatal ==
  /\ pc = "indexes"
  /\ LET pre == HasTable(work, PoolName) IN
     \/ /\ pre
        /\ Apply(CreateIndexIfNotExists(work, IndexNames[k], PoolName))
        /\ Sent("CREATE INDEX", TRUE)
        /\ k' = k + 1
        /\ pc' = IF k = Len(IndexNames) THEN "trigger" ELSE "indexes"
        /\ UNCHANGED << faults, error >>
     \/ /\ StmtFails(pre)
        /\ Sent("CREATE INDEX", FALSE)
        /\ error' = Err("CREATE INDEX")
        /\ pc' = "swap_rollback"
        /\ UNCHANGED << storeVars, k >>
  /\ UNCHANGED << constVars, scriptVars, driverVars, histVars, callVars, retryVars, tempTableName,
                  backupTableName, i, batch, j, tempCount, engineVars >>

\* CREATE INDEX IF NOT EXISTS idx_pool_... ON pool, six times in one try block
CreateIndex ==
  /\ pc = "indexes"
  /\ LET pre == HasTable(work, PoolName) IN
     \/ /\ pre
        /\ Apply(CreateIndexIfNotExists(work, IndexNames[k], PoolName))
        /\ Sent("CREATE INDEX", TRUE)
        /\ k' = k + 1
        /\ pc' = IF k = Len(IndexNames) THEN "trigger" ELSE "indexes"
        /\ faults' = faults
     \/ /\ StmtFails(pre)
        /\ Sent("CREATE INDEX", FALSE)
        /\ pc' = "trigger"
        /\ UNCHANGED << storeVars, k >>
  /\ UNCHANGED << constVars, scriptVars, driverVars, histVars, callVars, retryVars, tempTableName, backupTableName,
                  i, batch, j, tempCount, engineVars, error >>

\* CREATE TRIGGER IF NOT EXISTS update_pool_timestamp AFTER UPDATE ON pool
CreateTrigger ==
  /\ pc = "trigger"
  /\ LET pre == HasTable(work, PoolName) IN
     \/ /\ pre
        /\ Apply(CreateTriggerIfNotExists(work, PoolName))
        /\ Sent("CREATE TRIGGER", TRUE)
        /\ faults' = faults
     \/ /\ StmtFails(pre)
        /\ Sent("CREATE TRIGGER", FALSE)
        /\ UNCHANGED storeVars
  /\ pc' = "drop_backup"
  /\ UNCHANGED << constVars, scriptVars, driverVars, histVars, callVars, retryVars, attemptVars, engineVars, error >>

\* mutant: the backup table is kept after the swap
DropBackupTableOmitted ==
  /\ pc = "drop_backup"
  /\ returned' = Len(cleanRecords)
  /\ pc' = "verify_count"
  /\ UNCHANGED << constVars, scriptVars, driverVars, histVars, callVars, retryVars, attemptVars,
                  storeVars, db, result, dbCount, stats, error, faults, log >>

\* DROP TABLE backupTableName; return cleanRecords.length
DropBackupTable ==
  /\ pc = "drop_backup"
  /\ LET pre == HasTable(work, backupTableName) IN
     \/ /\ pre
        /\ Apply(DropTable(work, backupTableName))
        /\ Sent("DROP backup", TRUE)
        /\ UNCHANGED << faults, failedDrops >>
     \/ /\ StmtFails(pre)
        /\ Sent("DROP backup", FALSE)
        /\ failedDrops' = failedDrops \cup {backupTableName}
        /\ UNCHANGED storeVars
  /\ returned' = Len(cleanRecords)
  /\ pc' = "verify_count"
  /\ UNCHANGED << constVars, scriptVars, driverVars, tempNames, disconnects, callVars, retryVars,
                  attemptVars, db, result, dbCount, stats, error >>

\* mutant: the swap's catch block rethrows without a ROLLBACK
SwapRollbackOmitted ==
  /\ pc = "swap_rollback"
  /\ pc' = "cleanup"
  /\ UNCHANGED << constVars, scriptVars, driverVars, histVars, callVars, retryVars, attemptVars, storeVars, engineVars,
                  error, faults, log >>

\* catch (error) { ROLLBACK; throw error } of the swap
SwapRollback ==
  /\ pc = "swap_rollback"
  /\ LET pre == inTxn IN
     \/ /\ pre
        /\ Rollback
        /\ Sent("ROLLBACK SWAP", TRUE)
        /\ UNCHANGED << error, faults >>
     \/ /\ StmtFails(pre)
        /\ Sent("ROLLBACK SWAP", FALSE)
        /\ error' = Err("ROLLBACK")
        /\ UNCHANGED storeVars
  /\ pc' = "cleanup"
  /\ UNCHANGED << constVars, scriptVars, driverVars, histVars, callVars, retryVars, attemptVars, engineVars >>

\* mutant: the outer catch rethrows without dropping the staging table
CleanupOmitted ==
  /\ pc = "cleanup"
  /\ pc' = "retry_catch"
  /\ UNCHANGED << constVars, scriptVars, driverVars, histVars, callVars, retryVars, attemptVars, storeVars, engineVars,
                  error, faults, log >>

\* mutant: the error of a failed drop replaces the error being handled
CleanupTempTableMasks ==
  /\ pc = "cleanup"
  /\ \/ /\ Apply(IF HasTable(work, tempTableName)
                 THEN DropTable(work, tempTableName) ELSE work)
        /\ Sent("DROP temp", TRUE)
        /\ UNCHANGED << faults, error, failedDrops >>
     \/ /\ StmtFails(TRUE)
        /\ Sent("DROP temp", FALSE)
        /\ failedDrops' = failedDrops \cup {tempTableName}
        /\ error' = Err("DROP temp")
        /\ UNCHANGED storeVars
  /\ pc' = "retry_catch"
  /\ UNCHANGED << constVars, scriptVars, driverVars, tempNames, disconnects, callVars, retryVars,
                  attemptVars, engineVars >>

\* outer catch: DROP TABLE IF EXISTS tempTableName (errors swallowed); throw error
CleanupTempTable ==
  /\ pc = "cleanup"
  /\ \/ /\ Apply(IF HasTable(work, tempTableName)
                 THEN DropTable(work, tempTableName) ELSE work)
        /\ Sent("DROP temp", TRUE)
        /\ UNCHANGED << faults, failedDrops >>
     \/ /\ StmtFails(TRUE)
        /\ Sent("DROP temp", FALSE)
        /\ failedDrops' = failedDrops \cup {tempTableName}
        /\ UNCHANGED storeVars
  /\ pc' = "retry_catch"
  /\ UNCHANGED << constVars, scriptVars, driverVars, tempNames, disconnects, callVars, retryVars,
                  attemptVars, engineVars, error >>

(* ------------------- ProxySyncEngine.sync, continued ------------------- *)
\* mutant: a count that differs from the synchronizer's fails the run
VerifyResultsStrict ==
  /\ pc = "verify_count"
  /\ \/ /\ HasTable(work, PoolName)
        /\ dbCount' = CountRows(work, PoolName)
     \/ dbCount' = -1
  /\ IF dbCount' # returned
     THEN /\ error' = Err("Record count mismatch")
          /\ UNCHANGED << stats, result >>
     ELSE /\ stats' = [stats EXCEPT !.totalSyncs = @ + 1,
                                    !.successfulSyncs = @ + 1,
                                    !.lastRecordCount = returned,
                                    !.lastSyncTime = now,
                                    !.lastError = Null]
          /\ result' = TRUE
          /\ error' = error
  /\ pc' = "disconnect"
  /\ UNCHANGED << constVars, scriptVars, driverVars, histVars, callVars, retryVars, attemptVars,
                  storeVars, db, returned, faults, log >>

\* step 4: getProxyCount (-1 when the query fails), the statistics; return true
VerifyResults ==
  /\ pc = "verify_count"
  /\ \/ /\ HasTable(work, PoolName)
        /\ dbCount' = CountRows(work, PoolName)
     \/ dbCount' = -1
  /\ stats' = [stats EXCEPT !.totalSyncs = @ + 1,
                            !.successfulSyncs = @ + 1,
                            !.lastRecordCount = returned,
                            !.lastSyncTime = now,
                            !.lastError = Null]
  /\ result' = TRUE
  /\ pc' = "disconnect"
  /\ UNCHANGED << constVars, scriptVars, driverVars, histVars, callVars, retryVars, attemptVars, storeVars, db,
                  returned, error, faults, log >>

\* finally { dbClient.disconnect() }: db.close(); this.db = null
Disconnect ==
  /\ pc = "disconnect"
  /\ \/ /\ db' = Null
        /\ Rollback
     \/ /\ db' = db
        /\ UNCHANGED storeVars
  /\ pc' = IF error # NoError THEN "sync_catch" ELSE "done"
  /\ disconnects' = disconnects + 1
  /\ UNCHANGED << constVars, scriptVars, driverVars, tempNames, failedDrops, callVars, retryVars,
                  attemptVars, returned, result, dbCount, stats, error, faults, log >>

\* mutant: the handler records the failure and rethrows
SyncCatchRethrows ==
  /\ pc = "sync_catch"
  /\ stats' = [stats EXCEPT !.totalSyncs = @ + 1,
                            !.failedSyncs = @ + 1,
                            !.lastError = error.msg]
  /\ pc' = "done"
  /\ UNCHANGED << constVars, scriptVars, driverVars, histVars, callVars, retryVars, attemptVars,
                  storeVars, db, returned, result, dbCount, error, faults, log >>

\* catch (error): the statistics of a failed run; return false
SyncCatch ==
  /\ pc = "sync_catch"
  /\ stats' = [stats EXCEPT !.totalSyncs = @ + 1,
                            !.failedSyncs = @ + 1,
                            !.lastError = error.msg]
  /\ result' = FALSE
  /\ error' = NoError
  /\ pc' = "done"
  /\ UNCHANGED << constVars, scriptVars, driverVars, histVars, callVars, retryVars, attemptVars, storeVars, db,
                  returned, dbCount, faults, log >>

Next ==
  \/ ParseFile \/ Connect \/ SyncProxiesWithSwap
  \/ ExecuteWithRetry \/ ExecuteWithRetryCatch
  \/ CreateTempTable \/ ChunkBegin \/ InsertRecord \/ ChunkCommit \/ ChunkRollback
  \/ VerifyTempCount \/ SwapBegin \/ RenamePoolToBackup \/ RenameTempToPool
  \/ SwapCommit \/ CreateIndex \/ CreateTrigger \/ DropBackupTable
  \/ SwapRollback \/ CleanupTempTable
  \/ VerifyResults \/ Disconnect \/ SyncCatch

Spec == Init /\ [][Next]_vars

(* ------------------------- a run that is killed ------------------------ *)
\* The process running sync() is killed (SIGKILL, power loss) between two of
\* its steps: its connection is gone and the store rolls back the transaction
\* the connection had open.
Kill ==
  /\ pc \notin {"done", "killed"}
  /\ pc' = "killed"
  /\ work' = committed
  /\ committed' = committed
  /\ inTxn' = FALSE
  /\ db' = Null
  /\ UNCHANGED << constVars, scriptVars, driverVars, histVars, callVars, retryVars, attemptVars,
                  returned, result, dbCount, stats, error, faults, log >>

NextKill == Kill \/ Next

KillSpec == Init /\ [][NextKill]_vars

(* ------------- executeWithRetry on its own, with any operation --------- *)
\* a queryFn that throws on its first opFails invocations and then returns
\* the number of the invocation that succeeded
Operation ==
  /\ pc = "op"
  /\ IF calls <= opFails
     THEN /\ error' = Err("operation failed")
          /\ pc' = "retry_catch"
          /\ returned' = returned
     ELSE /\ returned' = calls
          /\ pc' = "returned"
          /\ error' = error
  /\ UNCHANGED << constVars, scriptVars, driverVars, histVars, callVars, retryVars, attemptVars, storeVars, db,
                  result, dbCount, stats, faults, log >>

\* client.executeWithRetry(queryFn, maxRetries, delay)
InitRetry ==
  /\ InitCommon
  /\ pc = "retry_loop"
  /\ content = <<>> /\ env = NoEnv
  /\ config = DefaultConfig
  /\ queryFn = "op"
  /\ maxRetries \in 1..MaxAttempts
  /\ delay \in 0..MaxDelay
  /\ opFails \in 0..MaxAttempts
  /\ attempt = 1
  /\ db = "open"
  /\ absent = FALSE

NextRetry == ExecuteWithRetry \/ ExecuteWithRetryCatch \/ Operation

RetrySpec == InitRetry /\ [][NextRetry]_vars

(* ------------- syncProxiesWithSwap called directly by a client --------- *)
AllOk(l) == \A n \in 1..Len(l) : l[n][2]

\* client.syncProxiesWithSwap(records, batchSize) on a connected client, with
\* any batch (the empty one too) or without a records argument
CallSwap ==
  /\ pc = "call"
  /\ \/ absent' = FALSE /\ records' \in Batches
     \/ absent' = TRUE /\ records' = <<>>
  /\ pc' = "swap_entry"
  /\ UNCHANGED << constVars, scriptVars, run, firstRun, otherTemp, histVars, batchSize,
                  cleanRecords, duplicatesFound, retryVars, attemptVars, storeVars,
                  engineVars, error, faults, log >>

\* the call has returned (control is back at the caller with the count) and
\* the client calls syncProxiesWithSwap again with the same arguments, at least a
\* millisecond after the first call began
CallAgain ==
  /\ pc = "verify_count"
  /\ run = 1
  /\ run' = 2
  /\ firstRun' = [pool |-> IF HasTable(committed, PoolName)
                           THEN committed[PoolName] ELSE EmptyTable,
                  clean |-> faults = 0 /\ AllOk(log) /\ calls <= 1]
  /\ now' = now + 1
  /\ returned' = -1
  /\ pc' = "swap_entry"
  /\ UNCHANGED << constVars, scriptVars, absent, otherTemp, histVars, callVars, maxRetries, delay,
                  attempt, calls, waits, attemptVars, storeVars, db, result, dbCount,
                  stats, error, faults, log >>

\* a connected client about to call syncProxiesWithSwap
InitClient ==
  /\ InitCommon
  /\ pc = "call"
  /\ content = <<>> /\ env = NoEnv
  /\ config \in { [DefaultConfig EXCEPT !.batchSize = b] : b \in 1..MaxBatchSize }
  /\ queryFn = "swap" /\ opFails = 0
  /\ maxRetries = 0 /\ delay = 0 /\ attempt = 0
  /\ db = "open"
  /\ absent = FALSE

NextClient ==
  \/ CallSwap \/ CallAgain \/ SyncProxiesWithSwap
  \/ ExecuteWithRetry \/ ExecuteWithRetryCatch
  \/ CreateTempTable \/ ChunkBegin \/ InsertRecord \/ ChunkCommit \/ ChunkRollback
  \/ VerifyTempCount \/ SwapBegin \/ RenamePoolToBackup \/ RenameTempToPool
  \/ SwapCommit \/ CreateIndex \/ CreateTrigger \/ DropBackupTable
  \/ SwapRollback \/ CleanupTempTable

ClientSpec == InitClient /\ [][NextClient]_vars

(* ------------- a second client running syncProxiesWithSwap ------------- *)
\* While this client's call is under way, another client (another process
\* running the same script against the same store) begins an attempt of its
\* own: it reads its clock, in the same millisecond or in the next, and sends
\* CREATE TABLE for the name it computed.  The statement takes effect unless
\* the name is taken or this client holds the write transaction.
OtherRunCreateTemp ==
  /\ pc \notin {"call", "verify_count", "disconnect"}
  /\ otherTemp = PoolName
  /\ \E t \in {now, now + 1} :
       /\ otherTemp' = TempName(t)
       /\ \/ /\ ~inTxn /\ ~HasTable(committed, TempName(t))
             /\ Apply(CreateTable(work, TempName(t)))
          \/ UNCHANGED storeVars
  /\ UNCHANGED << pc, constVars, scriptVars, absent, run, firstRun, histVars, callVars, retryVars,
                  attemptVars, engineVars, error, faults, log >>

NextRace ==
  \/ CallSwap \/ SyncProxiesWithSwap \/ OtherRunCreateTemp
  \/ ExecuteWithRetry \/ ExecuteWithRetryCatch
  \/ CreateTempTable \/ ChunkBegin \/ InsertRecord \/ ChunkCommit \/ ChunkRollback
  \/ VerifyTempCount \/ SwapBegin \/ RenamePoolToBackup \/ RenameTempToPool
  \/ SwapCommit \/ CreateIndex \/ CreateTrigger \/ DropBackupTable
  \/ SwapRollback \/ CleanupTempTable

RaceSpec == InitClient /\ [][NextRace]_vars

(* ------------------------------ ProxyParser ---------------------------- *)
\* A line of the live file is given as its fields (what lies between the '|'),
\* a field as its characters.
RECURSIVE TrimStart(_)
TrimStart(f) == IF f # <<>> /\ f[1] = " " THEN TrimStart(Tail(f)) ELSE f
RECURSIVE TrimEnd(_)
TrimEnd(f) ==
  IF f # <<>> /\ f[Len(f)] = " " THEN TrimEnd(SubSeq(f, 1, Len(f) - 1)) ELSE f
\* line.trim().split('|'): the whitespace before the first field's text and
\* after the last field's text is gone
TrimSplit(line) ==
  [m \in 1..Len(line) |->
     IF Len(line) = 1 THEN TrimEnd(TrimStart(line[1]))
     ELSE IF m = 1 THEN TrimStart(line[1])
     ELSE IF m = Len(line) THEN TrimEnd(line[m])
     ELSE line[m]]
\* line.trim() is truthy: the filter of parseFile
NonBlank(line) == Len(line) > 1 \/ TrimStart(line[1]) # <<>>

Digits == << "0", "1", "2", "3", "4", "5", "6", "7", "8", "9" >>
IsDigit(c) == \E d \in 1..10 : Digits[d] = c
DigitValue(c) == (CHOOSE d \in 1..10 : Digits[d] = c) - 1
NaN == [nan |-> TRUE, value |-> 0]
RECURSIVE DigitsValue(_, _)
DigitsValue(u, acc) ==
  IF u = <<>> \/ ~IsDigit(u[1]) THEN acc
  ELSE DigitsValue(Tail(u), 10 * acc + DigitValue(u[1]))
\* parseInt(f): leading whitespace, a sign, then the longest run of digits
ParseInt(f) ==
  LET t == TrimStart(f)
      signed == t # <<>> /\ t[1] \in {"-", "+"}
      u == IF signed THEN Tail(t) ELSE t
  IN IF u = <<>> \/ ~IsDigit(u[1]) THEN NaN
     ELSE [nan |-> FALSE,
           value |-> IF signed /\ t[1] = "-" THEN 0 - DigitsValue(u, 0)
                     ELSE DigitsValue(u, 0)]

\* new ProxyRecord({proxy: parts[0], ..., hostname: parts[11]})
NewProxyRecord(parts) ==
  [proxy |-> parts[1], protocol |-> parts[2], host |-> parts[3],
   port |-> ParseInt(parts[4]), ip |-> parts[5], rest |-> SubSeq(parts, 6, 12)]
\* mutant: the port is not looked at
IsValidIgnoresPort(r) ==
  r.proxy # <<>> /\ r.protocol # <<>> /\ r.host # <<>> /\ r.ip # <<>>
\* ProxyRecord.isValid
IsValid(r) ==
  r.proxy # <<>> /\ r.protocol # <<>> /\ r.host # <<>> /\ ~r.port.nan /\ r.ip # <<>>
\* parseLine: <<>> for null, <<record>> for a record
ParseLine(line) ==
  LET parts == TrimSplit(line) IN
  IF Len(parts) # 12 THEN <<>>
  ELSE IF ~IsValid(NewProxyRecord(parts)) THEN <<>>
       ELSE << NewProxyRecord(parts) >>

\* the lines tried: a valid one, the same with one field changed at a time,
\* lines with too few and too many fields, blank lines
ValidLine ==
  << <<"a">>, <<"h">>, <<"h">>, <<"8", "0">>, <<"1">>,
     <<"z">>, <<"z">>, <<"z">>, <<"z">>, <<"z">>, <<"z">>, <<"z">> >>
Lines ==
  { ValidLine,
    [ValidLine EXCEPT ![1] = <<"b">>],
    [ValidLine EXCEPT ![1] = <<" ", "b">>, ![12] = <<"z", " ">>],
    [ValidLine EXCEPT ![1] = <<>>],
    [ValidLine EXCEPT ![1] = <<" ">>],
    [ValidLine EXCEPT ![2] = <<>>],
    [ValidLine EXCEPT ![3] = <<>>],
    [ValidLine EXCEPT ![4] = <<>>],
    [ValidLine EXCEPT ![4] = <<"x">>],
    [ValidLine EXCEPT ![4] = <<"8", "x">>],
    [ValidLine EXCEPT ![4] = <<"-", "1">>],
    [ValidLine EXCEPT ![5] = <<>>],
    [ValidLine EXCEPT ![12] = <<>>],
    SubSeq(ValidLine, 1, 11),
    Append(ValidLine, <<"z">>),
    << <<"x">> >>,
    << <<>> >>,
    << <<" ">> >> }
Files == UNION { [1..n -> Lines] : n \in 0..MaxLines }

\* parseFile: existsSync, readFileSync, split('\n'), filter
ParseFileRead ==
  /\ pc = "parse_file"
  /\ \/ /\ error' = Err("File not found")
        /\ pc' = "parse_failed"
        /\ parser' = parser
     \/ /\ error' = Err("Failed to read file")
        /\ pc' = "parse_failed"
        /\ parser' = parser
     \/ /\ parser' = [NoParser EXCEPT !.lines = SelectSeq(content, NonBlank)]
        /\ pc' = "parse_loop"
        /\ error' = error
  /\ UNCHANGED << constVars, content, env, checks, exitCode, driverVars, histVars,
                  callVars, retryVars, attemptVars, storeVars, engineVars, faults,
                  log >>

\* for (i < lines.length): record = parseLine(lines[i], i + 1); push or count
ParseFileLoop ==
  /\ pc = "parse_loop"
  /\ parser.i < Len(parser.lines)
  /\ LET record == ParseLine(parser.lines[parser.i + 1]) IN
     parser' = IF record # <<>>
               THEN [parser EXCEPT !.records = Append(@, record[1]),
                                   !.validCount = @ + 1, !.i = @ + 1]
               ELSE [parser EXCEPT !.invalidCount = @ + 1, !.i = @ + 1]
  /\ UNCHANGED << pc, constVars, content, env, checks, exitCode, driverVars,
                  histVars, callVars, retryVars, attemptVars, storeVars, engineVars,
                  error, faults, log >>

\* return records
ParseFileReturn ==
  /\ pc = "parse_loop"
  /\ parser.i >= Len(parser.lines)
  /\ pc' = "parsed"
  /\ UNCHANGED << constVars, scriptVars, driverVars, histVars, callVars, retryVars,
                  attemptVars, storeVars, engineVars, error, faults, log >>

\* parser.parseFile(path) on any file
InitParse ==
  /\ InitCommon
  /\ pc = "parse_file"
  /\ content \in Files /\ env = NoEnv
  /\ config = DefaultConfig
  /\ queryFn = "none" /\ opFails = 0
  /\ maxRetries = 0 /\ delay = 0 /\ attempt = 0
  /\ db = Null
  /\ absent = FALSE

NextParse == ParseFileRead \/ ParseFileLoop \/ ParseFileReturn

ParseSpec == InitParse /\ [][NextParse]_vars

(* ------------------- sync() with any integer chunk size ---------------- *)
\* the chunk loop, observed for the first MaxLog statements of an attempt
ChunkBeginCapped == Len(log) < MaxLog /\ ChunkBegin

\* config.batchSize = parseInt(process.env.BATCH_SIZE || '1000'): any integer
InitChunkSize ==
  /\ InitCommon
  /\ pc = "sync"
  /\ content = <<>> /\ env = NoEnv
  /\ config \in { [DefaultConfig EXCEPT !.batchSize = b] :
                   b \in (0 - MaxNegBatch)..MaxBatchSize }
  /\ queryFn = "swap" /\ opFails = 0
  /\ maxRetries = 0 /\ delay = 0 /\ attempt = 0
  /\ db = Null
  /\ absent = FALSE

NextChunkSize ==
  \/ ParseFile \/ Connect \/ SyncProxiesWithSwap
  \/ ExecuteWithRetry \/ ExecuteWithRetryCatch
  \/ CreateTempTable \/ ChunkBeginCapped \/ InsertRecord \/ ChunkCommit
  \/ ChunkRollback
  \/ VerifyTempCount \/ SwapBegin \/ RenamePoolToBackup \/ RenameTempToPool
  \/ SwapCommit \/ CreateIndex \/ CreateTrigger \/ DropBackupTable
  \/ SwapRollback \/ CleanupTempTable
  \/ VerifyResults \/ Disconnect \/ SyncCatch

ChunkSizeSpec == InitChunkSize /\ [][NextChunkSize]_vars

(* ------------------------ scripts/health-check.js ---------------------- *)
\* mutant: a warning is looked for before an unhealthy component
OverallStatusWarningFirst(statuses) ==
  IF "error" \in statuses THEN "error"
  ELSE IF "warning" \in statuses THEN "warning"
  ELSE IF "unhealthy" \in statuses THEN "unhealthy"
  ELSE "healthy"
\* main: let overallStatus = 'healthy'; if (statuses.includes('error')) ...
OverallStatus(statuses) ==
  IF "error" \in statuses THEN "error"
  ELSE IF "unhealthy" \in statuses THEN "unhealthy"
  ELSE IF "warning" \in statuses THEN "warning"
  ELSE "healthy"
\* const exitCodes = { healthy: 0, warning: 1, unhealthy: 2, error: 3 }
ExitCodes == [healthy |-> 0, warning |-> 1, unhealthy |-> 2, error |-> 3]

\* HealthChecker.checkDatabase, with SQLiteCloudClient.connect and healthCheck
CheckDatabase ==
  /\ pc = "check_database"
  /\ checks' = [checks EXCEPT !.database =
                   IF ~env.url THEN "error"
                   ELSE IF ~env.connectOk THEN "unhealthy"
                   ELSE IF env.selectOk THEN "healthy" ELSE "error"]
  /\ pc' = "check_live_file"
  /\ UNCHANGED << constVars, content, parser, env, exitCode, driverVars, histVars,
                  callVars, retryVars, attemptVars, storeVars, engineVars, error,
                  faults, log >>

\* HealthChecker.checkLiveFile
CheckLiveFile ==
  /\ pc = "check_live_file"
  /\ checks' = [checks EXCEPT !.liveFile =
                   IF ~env.fileExists THEN "error"
                   ELSE IF env.statOk THEN "healthy" ELSE "error"]
  /\ pc' = "check_configuration"
  /\ UNCHANGED << constVars, content, parser, env, exitCode, driverVars, histVars,
                  callVars, retryVars, attemptVars, storeVars, engineVars, error,
                  faults, log >>

\* HealthChecker.checkConfiguration: status 'warning' when there are issues
CheckConfiguration ==
  /\ pc = "check_configuration"
  /\ checks' = [checks EXCEPT !.configuration =
                   IF ~env.url \/ ~env.path \/ env.maxRetries < 1 \/ env.batchSize < 1
                   THEN "warning" ELSE "healthy"]
  /\ pc' = "overall"
  /\ UNCHANGED << constVars, content, parser, env, exitCode, driverVars, histVars,
                  callVars, retryVars, attemptVars, storeVars, engineVars, error,
                  faults, log >>

\* main: the statuses of the checks, overallStatus
DetermineOverallStatus ==
  /\ pc = "overall"
  /\ checks' = [checks EXCEPT !.overallStatus =
                   OverallStatus({checks.database, checks.liveFile,
                                  checks.configuration})]
  /\ pc' = "output"
  /\ UNCHANGED << constVars, content, parser, env, exitCode, driverVars, histVars,
                  callVars, retryVars, attemptVars, storeVars, engineVars, error,
                  faults, log >>

\* main: the output, then process.exit(exitCodes[overallStatus]); in the catch
\* block process.exit(3)
OutputAndExit ==
  /\ pc = "output"
  /\ IF env.outputOk
     THEN /\ exitCode' = ExitCodes[checks.overallStatus]
          /\ error' = error
     ELSE /\ exitCode' = 3
          /\ error' = Err("Health check failed")
  /\ pc' = "exited"
  /\ UNCHANGED << constVars, content, parser, env, checks, driverVars, histVars,
                  callVars, retryVars, attemptVars, storeVars, engineVars, faults,
                  log >>

\* node scripts/health-check.js in any environment
InitHealth ==
  /\ InitCommon
  /\ pc = "check_database"
  /\ content = <<>>
  /\ env \in [url : BOOLEAN, path : {TRUE}, maxRetries : 0..MaxConfigRetries,
               batchSize : 0..MaxBatchSize, fileExists : BOOLEAN, statOk : BOOLEAN,
               connectOk : BOOLEAN, selectOk : BOOLEAN, outputOk : BOOLEAN]
  /\ config = DefaultConfig
  /\ queryFn = "none" /\ opFails = 0
  /\ maxRetries = 0 /\ delay = 0 /\ attempt = 0
  /\ db = Null
  /\ absent = FALSE

NextHealth ==
  \/ CheckDatabase \/ CheckLiveFile \/ CheckConfiguration
  \/ DetermineOverallStatus \/ OutputAndExit

HealthSpec == InitHealth /\ [][NextHealth]_vars

(* ============================== properties ============================= *)
Range(f) == { f[n] : n \in DOMAIN f }
InLog(e) == \E n \in 1..Len(log) : log[n] = e
LastSent == log[Len(log)]
\* the record of each key's first line, stated on the input alone
FirstOccurrences(recs) ==
  { recs[n] : n \in { m \in 1..Len(recs) :
                        \A l \in 1..(m - 1) : recs[l].proxy # recs[m].proxy } }
\* pool as the bootstrap left it, with the rows of before the run
PoolUntouched(s) == HasTable(s, PoolName) /\ s[PoolName] = InitialStore[PoolName]
\* control is in the handler of a failed attempt, the error in flight
AttemptFailed == pc = "retry_catch" /\ queryFn = "swap"
\* syncProxiesWithSwap has just returned its count to sync()
SwapReturned == pc = "verify_count" /\ returned >= 0

\* C1: when syncProxiesWithSwap returns successfully for a non-empty batch, pool
\* holds exactly one row per distinct key of the input, each the first record
\* with that key, and no row of the previous contents.
C1_PoolHoldsFirstOccurrences ==
  (SwapReturned /\ Len(records) > 0) =>
     /\ HasTable(committed, PoolName)
     /\ committed[PoolName].rows = FirstOccurrences(records)
     /\ Cardinality(committed[PoolName].rows)
          = Cardinality({ r.proxy : r \in Range(records) })
     /\ committed[PoolName].rows \cap pool0 = {}
     /\ work = committed
C1_Witness ==
  /\ SwapReturned
  /\ Len(duplicatesFound) > 0
  /\ Len(cleanRecords) = 2
  /\ calls > 1

\* C2: in every committed state of the store a table named pool exists and its
\* rows are either exactly the rows of before the run or exactly the complete
\* deduplicated batch.
C2_ReaderSeesOldOrNew ==
  /\ HasTable(committed, PoolName)
  /\ \/ committed[PoolName].rows = pool0
     \/ /\ Len(cleanRecords) > 0
        /\ committed[PoolName].rows = FirstOccurrences(records)
C2_Witness ==
  /\ pc = "rename_temp"
  /\ inTxn
  /\ ~HasTable(work, PoolName)
  /\ committed[PoolName].rows = pool0
  /\ committed[tempTableName].rows = Range(cleanRecords)

\* C3: when a sync run fails (the synchronizer raised after its last attempt,
\* sync returns false) the store still has the table pool with the rows, the
\* indexes and the trigger it had before the run.
C3_FailedRunLeavesPool ==
  (\/ pc = "done" /\ ~result
   \/ pc \in {"disconnect", "sync_catch"} /\ error # NoError) =>
     /\ PoolUntouched(committed)
     /\ (pc = "done" /\ db = Null) => work = committed
C3_Witness ==
  /\ pc = "done" /\ ~result
  /\ calls = DefaultMaxRetries
  /\ InLog(<<"COMMIT", TRUE>>)

\* C4: when, inside the swap transaction, pool has been renamed to the backup
\* name and then the rename of the staging table or the COMMIT fails, a
\* ROLLBACK is sent and the store has the original pool table and no table of
\* the backup name (and so has the connection once the ROLLBACK succeeded).
SwapFailedAfterRename ==
  /\ InLog(<<"RENAME pool", TRUE>>)
  /\ InLog(<<"RENAME temp", FALSE>>) \/ InLog(<<"COMMIT SWAP", FALSE>>)
C4_SwapFailureRestoresPool ==
  SwapFailedAfterRename =>
     /\ pc = "swap_rollback"
        \/ InLog(<<"ROLLBACK SWAP", TRUE>>) \/ InLog(<<"ROLLBACK SWAP", FALSE>>)
     /\ PoolUntouched(committed)
     /\ ~HasTable(committed, backupTableName)
     /\ InLog(<<"ROLLBACK SWAP", TRUE>>) =>
          PoolUntouched(work) /\ ~HasTable(work, backupTableName)
C4_Witness ==
  /\ pc = "cleanup"
  /\ InLog(<<"RENAME temp", TRUE>>)
  /\ InLog(<<"COMMIT SWAP", FALSE>>)
  /\ InLog(<<"ROLLBACK SWAP", TRUE>>)
  /\ PoolUntouched(work)

CountMismatch == tempCount # -1 /\ tempCount # Len(cleanRecords)
C6_Original ==
  (CountMismatch /\ pc # "cleanup") =>
     /\ ~InLog(<<"BEGIN SWAP", TRUE>>) /\ ~InLog(<<"BEGIN SWAP", FALSE>>)
     /\ PoolUntouched(committed)
     /\ ~HasTable(committed, tempTableName)
\* C6 amended: after a count mismatch the attempt fails with the mismatch error
\* without beginning the swap, pool is unchanged, the drop of the staging
\* table is sent, and the staging table no longer exists when that drop
\* succeeds.
C6_CountMismatchAborts ==
  CountMismatch =>
     /\ pc \in {"cleanup", "retry_catch", "retry_loop", "create_temp", "disconnect",
                "sync_catch", "done"}
     /\ pc \in {"cleanup", "retry_catch"} =>
          error = [msg |-> "Temp table count mismatch", call |-> calls]
     /\ ~InLog(<<"BEGIN SWAP", TRUE>>) /\ ~InLog(<<"BEGIN SWAP", FALSE>>)
     /\ PoolUntouched(committed) /\ PoolUntouched(work)
     /\ pc # "cleanup" =>
          /\ LastSent[1] = "DROP temp"
          /\ LastSent[2] =>
               ~HasTable(committed, tempTableName) /\ ~HasTable(work, tempTableName)
C6_Witness ==
  /\ CountMismatch
  /\ pc = "retry_catch"
  /\ LastSent = <<"DROP temp", TRUE>>
  /\ ~HasTable(committed, tempTableName)

\* C7: when the insert of a row fails, the chunk's transaction is rolled back,
\* no later row or chunk is inserted in the attempt, the attempt fails with the
\* insert's error and pool is unchanged.
C7_ChunkInsertFailure ==
  (AttemptFailed /\ InLog(<<"INSERT", FALSE>>)) =>
     /\ InLog(<<"ROLLBACK", TRUE>>)
     /\ ~inTxn
     /\ error = [msg |-> "INSERT", call |-> calls]
     /\ \A n \in 1..Len(log) : \A m \in (n + 1)..Len(log) :
          log[n] = <<"INSERT", FALSE>> => log[m][1] \notin {"INSERT", "BEGIN"}
     /\ PoolUntouched(committed)

\* C10: a swap synchronization that keeps failing is attempted config.maxRetries
\* times, with the waits derived from config.retryDelay, before sync's
\* handlers see the failure.
C10_AttemptsFollowConfig ==
  (pc = "disconnect" /\ error # NoError) =>
     /\ calls = config.maxRetries
     /\ waits = [n \in 1..(config.maxRetries - 1) |-> config.retryDelay * 2^(n - 1)]

(* properties of executeWithRetry, checked under RetrySpec *)
ExpectedWaits(d, n) == [m \in 1..n |-> d * 2^(m - 1)]
RECURSIVE SumSeq(_)
SumSeq(q) == IF q = <<>> THEN 0 ELSE q[1] + SumSeq(Tail(q))

\* C8: with an operation that fails k times and then succeeds and
\* maxRetries >= k + 1, executeWithRetry returns the operation's result after
\* exactly k + 1 invocations and the waits delay * 2^(i-1), i = 1..k, in order.
C8_RetryUntilSuccess ==
  (queryFn = "op" /\ maxRetries >= opFails + 1) =>
     /\ pc # "failed"
     /\ pc \notin {"returned", "failed"} => ENABLED NextRetry
     /\ pc = "returned" =>
          /\ returned = opFails + 1
          /\ calls = opFails + 1
          /\ waits = ExpectedWaits(delay, opFails)
          /\ SumSeq(waits) = delay * (2^opFails - 1)
          /\ error = NoError
C8_Witness ==
  /\ queryFn = "op" /\ pc = "returned"
  /\ opFails = 3 /\ maxRetries = 4 /\ delay = 2
  /\ waits = <<2, 4, 8>>

\* C9: with maxRetries = k >= 1 and an operation failing on each of its k
\* invocations, executeWithRetry fails with the error of the k-th invocation,
\* after exactly k invocations and k - 1 waits.
C9_RetryExhausted ==
  (queryFn = "op" /\ opFails >= maxRetries) =>
     /\ pc # "returned"
     /\ pc \notin {"returned", "failed"} => ENABLED NextRetry
     /\ pc = "failed" =>
          /\ error = [msg |-> "operation failed", call |-> maxRetries]
          /\ calls = maxRetries
          /\ waits = ExpectedWaits(delay, maxRetries - 1)
          /\ returned = -1
C9_Witness ==
  /\ queryFn = "op" /\ pc = "failed"
  /\ maxRetries = 3 /\ opFails = 3 /\ delay = 1
  /\ waits = <<1, 2>>
  /\ error.call = 3

(* ------------------------- the duplicate check ------------------------- *)
\* the lines of recs that are the first with their key
FirstLines(recs) ==
  { m \in 1..Len(recs) : \A l \in 1..(m - 1) : recs[l].proxy # recs[m].proxy }
\* sub is the subsequence of recs made of exactly the lines in lines, in order
IsSubsequenceAt(sub, recs, lines) ==
  \E f \in [1..Len(sub) -> 1..Len(recs)] :
     /\ { f[n] : n \in 1..Len(sub) } = lines
     /\ \A n, m \in 1..Len(sub) : n < m => f[n] < f[m]
     /\ \A n \in 1..Len(sub) : sub[n] = recs[f[n]]
\* the duplicate check of syncProxiesWithSwap has run
Deduplicated == queryFn = "swap" /\ attempt >= 1
KeysOf(recs) == { recs[n].proxy : n \in 1..Len(recs) }
Occurrences(recs, key) == Cardinality({ n \in 1..Len(recs) : recs[n].proxy = key })
RECURSIVE SumOver(_, _)
SumOver(S, recs) ==
  IF S = {} THEN 0
  ELSE LET key == CHOOSE x \in S : TRUE
       IN (Occurrences(recs, key) - 1) + SumOver(S \ {key}, recs)

\* C11: the deduplicated batch is the subsequence of the input that keeps the
\* first record of every key and drops every later one, in the input's order,
\* and it has been computed when no statement has been sent to the store yet.
C11_DedupKeepsFirstInOrder ==
  /\ Deduplicated =>
       /\ IsSubsequenceAt(cleanRecords, records, FirstLines(records))
       /\ \A n, m \in 1..Len(cleanRecords) :
            n # m => cleanRecords[n].proxy # cleanRecords[m].proxy
       /\ { r.proxy : r \in Range(cleanRecords) } = { r.proxy : r \in Range(records) }
  /\ (queryFn = "swap" /\ ~Deduplicated) =>
       /\ log = <<>> /\ tempNames = <<>> /\ faults = 0
       /\ work = InitialStore /\ committed = InitialStore
C11_Witness ==
  /\ pc = "retry_loop" /\ calls = 0 /\ log = <<>> /\ committed = InitialStore
  /\ Len(records) = 3
  /\ records[1].proxy = "b" /\ records[2].proxy = "a" /\ records[3].proxy = "b"
  /\ cleanRecords = << records[1], records[2] >>

\* C12: the number of duplicates reported is the sum of n - 1 over the keys that
\* occur n > 1 times in the input; input length = deduplicated length + that
\* number.
C12_DuplicateCount ==
  Deduplicated =>
     /\ Len(duplicatesFound)
          = SumOver({ key \in KeysOf(records) : Occurrences(records, key) > 1 }, records)
     /\ Len(records) = Len(cleanRecords) + Len(duplicatesFound)
     /\ \A key \in KeysOf(records) :
          Cardinality({ n \in 1..Len(duplicatesFound) : duplicatesFound[n] = key })
            = IF Occurrences(records, key) > 1 THEN Occurrences(records, key) - 1 ELSE 0
C12_Witness ==
  /\ Deduplicated /\ pc = "retry_loop"
  /\ Len(records) = 3 /\ Occurrences(records, "a") = 3
  /\ duplicatesFound = << "a", "a" >>

(* ---------------------- two calls in a row, one call -------------------- *)
\* the second of two calls has returned and no statement failed in either
SecondCleanRunReturned ==
  /\ pc = "verify_count" /\ run = 2 /\ returned >= 0
  /\ firstRun.clean /\ faults = 0 /\ AllOk(log) /\ calls = 2
  /\ Len(records) > 0

\* C13: two calls of syncProxiesWithSwap in a row with the same batch, no
\* statement failing, the first starting from the bootstrap schema: after the
\* second call pool has the rows, the secondary indexes and the trigger it had
\* after the first.
C13_SecondRunSameState ==
  SecondCleanRunReturned =>
     /\ HasTable(committed, PoolName)
     /\ committed[PoolName].rows = firstRun.pool.rows
     /\ committed[PoolName].idx = firstRun.pool.idx
     /\ committed[PoolName].trg = firstRun.pool.trg

\* C14: a call of syncProxiesWithSwap with an empty batch, or with none, returns
\* 0 and sends no statement: pool and the rest of the store are unchanged, no
\* staging table is created, executeWithRetry is not entered and nothing waits.
EmptyCall == pc # "call" /\ (absent \/ Len(records) = 0)
C14_EmptyBatchReturnsZero ==
  EmptyCall =>
     /\ pc \in {"swap_entry", "verify_count"}
     /\ pc = "verify_count" => returned = 0
     /\ log = <<>> /\ tempNames = <<>> /\ faults = 0
     /\ calls = 0 /\ waits = <<>> /\ error = NoError
     /\ work = InitialStore /\ committed = InitialStore /\ ~inTxn
C14_Witness ==
  /\ pc = "verify_count" /\ returned = 0
  /\ absent
  /\ run = 2 /\ firstRun.pool = InitialStore[PoolName]

(* --------------------------- after the swap ---------------------------- *)
SwapCommitted == InLog(<<"COMMIT SWAP", TRUE>>)

\* C15: once the swap's COMMIT has succeeded, no failure of an index statement,
\* of the trigger statement or of the drop of the backup table fails the
\* attempt: no error is in flight, no ROLLBACK and no drop of the staging table
\* is sent, control never reaches a retry, pool holds the deduplicated batch
\* and the call returns the deduplicated count.
C15_PostCommitFailuresNotFatal ==
  (queryFn = "swap" /\ SwapCommitted) =>
     /\ pc \in {"indexes", "trigger", "drop_backup", "verify_count", "disconnect",
                "done"}
     /\ error = NoError
     /\ \A n \in 1..Len(log) : log[n][1] \notin {"ROLLBACK SWAP", "DROP temp"}
     /\ HasTable(committed, PoolName)
     /\ committed[PoolName].rows = Range(cleanRecords)
     /\ pc \in {"verify_count", "disconnect", "done"} => returned = Len(cleanRecords)
     /\ pc = "done" => result
C15_Witness ==
  /\ pc = "done" /\ result
  /\ InLog(<<"CREATE INDEX", FALSE>>)
  /\ InLog(<<"CREATE TRIGGER", FALSE>>)
  /\ InLog(<<"DROP backup", FALSE>>)
  /\ returned = 2

\* C16: after a run from the bootstrap schema in which every statement
\* succeeded, pool carries the six secondary indexes and the trigger once the
\* backup table has been dropped.
C16_IndexesAfterRun ==
  (SwapReturned /\ Len(records) > 0 /\ faults = 0 /\ AllOk(log) /\ calls = 1) =>
     /\ ~HasTable(committed, backupTableName)
     /\ committed[PoolName].idx = AllIndexes
     /\ committed[PoolName].trg

(* ------------------------- staging table names ------------------------- *)
\* C17: the staging table name an attempt computes is computed by no other
\* attempt of the same client and by no attempt of a client running at the same
\* time.
C17_StagingNameUnique ==
  /\ \A n, m \in 1..Len(tempNames) : n # m => tempNames[n] # tempNames[m]
  /\ \A n \in 1..Len(tempNames) : tempNames[n] # otherTemp

(* ----------------------- ProxySyncEngine.sync -------------------------- *)
\* sync() has returned to its caller
SyncReturned == queryFn = "swap" /\ pc = "done"
\* dbClient.connect() returned true in this run
Connected == attempt >= 1
\* places where an exception is in flight inside sync()
Handlers == {"chunk_rollback", "swap_rollback", "cleanup", "retry_catch",
             "disconnect", "sync_catch"}

\* C18: sync() always comes to return, no exception is in flight when it does,
\* and it returns true exactly when syncProxiesWithSwap returned a count,
\* whatever getProxyCount and disconnect did afterwards.
C18_SyncNeverThrows ==
  /\ error # NoError => pc \in Handlers
  /\ pc # "done" => ENABLED Next
  /\ SyncReturned =>
       /\ error = NoError
       /\ result \in BOOLEAN
       /\ result <=> returned >= 0
C18_Witness ==
  /\ SyncReturned /\ result
  /\ dbCount = -1 /\ db # Null
  /\ returned = 1

\* C19: when sync() has returned, disconnect was invoked exactly once if the
\* connection had been opened, and the client holds no connection.
C19_ConnectionReleased ==
  SyncReturned =>
     /\ Connected => disconnects = 1
     /\ db = Null

\* C20: when sync() has returned after a failed connect or a failed
\* synchronizer, it returned false and lastError holds the error text of the
\* run.
RunFailed == SyncReturned /\ Len(records) > 0 /\ returned < 0
C20_LastErrorRecorded ==
  RunFailed =>
     /\ ~result
     /\ stats.lastError # Null
     /\ Connected => stats.failedSyncs = 1 /\ stats.totalSyncs = 1

\* C21: when the count read from pool after the swap differs from the count
\* syncProxiesWithSwap returned (the failed count query, -1, included), sync()
\* still returns true, counts the run as successful, records the
\* synchronizer's count and clears lastError.
C21_CountCheckNotFatal ==
  (queryFn = "swap" /\ pc \in {"disconnect", "done"}
     /\ returned >= 0 /\ dbCount # returned) =>
     /\ result
     /\ error = NoError
     /\ stats.successfulSyncs = 1 /\ stats.totalSyncs = 1 /\ stats.failedSyncs = 0
     /\ stats.lastRecordCount = returned
     /\ stats.lastError = Null
C21_Witness ==
  /\ SyncReturned /\ result
  /\ returned = 2 /\ dbCount = -1
  /\ stats.lastRecordCount = 2
  /\ committed[PoolName].rows = Range(cleanRecords)

(* ---------------------------- a killed run ----------------------------- *)
\* C22: wherever a sync run is killed, the store (its open transaction rolled
\* back) has the table pool holding exactly the rows of before the run or
\* exactly the deduplicated batch, and every other table is a staging table
\* or the backup table of the run.
C22_KilledRunLeavesPool ==
  pc = "killed" =>
     /\ work = committed /\ ~inTxn
     /\ HasTable(committed, PoolName)
     /\ \/ committed[PoolName].rows = pool0
        \/ /\ Len(cleanRecords) > 0
           /\ committed[PoolName].rows = Range(cleanRecords)
     /\ \A t \in DOMAIN committed \ {PoolName} :
          \/ t \in Range(tempNames)
          \/ t = backupTableName /\ InLog(<<"COMMIT SWAP", TRUE>>)
C22_Witness ==
  /\ pc = "killed"
  /\ Len(log) > 0 /\ LastSent = <<"RENAME pool", TRUE>>
  /\ committed[PoolName].rows = pool0
  /\ HasTable(committed, tempTableName)
  /\ committed[tempTableName].rows = Range(cleanRecords)
  /\ Len(tempNames) = 2 /\ HasTable(committed, tempNames[1])

(* ------------------------------ the parser ----------------------------- *)
\* a record has a non-empty proxy, protocol, host and ip and a numeric port
IsValidRecord(r) ==
  /\ r.proxy # <<>> /\ r.protocol # <<>> /\ r.host # <<>> /\ r.ip # <<>>
  /\ r.port.nan = FALSE
\* the line, as written in the file, passes both tests of the parser
TwelveFields(line) == Len(line) = 12
HasText(f) == \E n \in 1..Len(f) : f[n] # " "
FieldsValid(line) ==
  /\ HasText(line[1])
  /\ line[2] # <<>> /\ line[3] # <<>> /\ line[5] # <<>>
  /\ \E n \in 1..Len(line[4]) :
       /\ IsDigit(line[4][n])
       /\ \A m \in 1..(n - 1) :
            line[4][m] = " " \/ (m = n - 1 /\ line[4][m] \in {"-", "+"})
Accepted(line) == TwelveFields(line) /\ FieldsValid(line)
NonEmptyLines == { n \in 1..Len(content) : NonBlank(content[n]) }

\* C23: the records parseFile returns are, in file order, the records of
\* exactly the non-empty lines that have 12 fields and valid data; every other
\* non-empty line is counted invalid, none stops the file, and
\* validCount + invalidCount = number of non-empty lines.
C23_ParserAdmitsValidLinesOnly ==
  /\ pc = "parse_loop" =>
       parser.validCount + parser.invalidCount = parser.i
  /\ pc = "parsed" =>
       /\ parser.validCount + parser.invalidCount = Cardinality(NonEmptyLines)
       /\ parser.validCount = Len(parser.records)
       /\ \A n \in 1..Len(parser.records) : IsValidRecord(parser.records[n])
       /\ \E f \in [1..Len(parser.records) -> 1..Len(content)] :
            /\ { f[n] : n \in 1..Len(parser.records) }
                 = { n \in NonEmptyLines : Accepted(content[n]) }
            /\ \A n, m \in 1..Len(parser.records) : n < m => f[n] < f[m]
            /\ \A n \in 1..Len(parser.records) :
                 /\ parser.records[n].proxy = TrimStart(content[f[n]][1])
                 /\ parser.records[n].protocol = content[f[n]][2]
                 /\ parser.records[n].host = content[f[n]][3]
                 /\ parser.records[n].ip = content[f[n]][5]
C23_Witness ==
  /\ pc = "parsed"
  /\ Len(content) = 3
  /\ content[1] = [ValidLine EXCEPT ![1] = <<"b">>]
  /\ content[2] = [ValidLine EXCEPT ![4] = <<"x">>]
  /\ content[3] = ValidLine
  /\ parser.validCount = 2 /\ parser.invalidCount = 1
  /\ parser.records[1].proxy = <<"b">> /\ parser.records[2].proxy = <<"a">>

(* --------------------------- the health check -------------------------- *)
\* error > unhealthy > warning > healthy
Severity(status) ==
  CASE status = "healthy" -> 0
    [] status = "warning" -> 1
    [] status = "unhealthy" -> 2
    [] status = "error" -> 3
Components == {checks.database, checks.liveFile, checks.configuration}

\* C24: the overall status is the most severe of the three component statuses,
\* and the exit code is 0, 1, 2, 3 for healthy, warning, unhealthy, error, and 3
\* when the check throws.
C24_OverallStatusAndExitCode ==
  /\ pc \in {"output", "exited"} =>
       /\ checks.overallStatus \in Components
       /\ \A c \in Components : Severity(c) <= Severity(checks.overallStatus)
  /\ pc = "exited" =>
       /\ error = NoError => exitCode = Severity(checks.overallStatus)
       /\ error # NoError => exitCode = 3
C24_Witness ==
  /\ pc = "exited" /\ error = NoError
  /\ checks.database = "unhealthy"
  /\ checks.liveFile = "healthy"
  /\ checks.configuration = "warning"
  /\ exitCode = 2

(* ----------------------------- run statistics -------------------------- *)
\* sync() returned after the parser yielded no records
EmptyRun == SyncReturned /\ Len(records) = 0 /\ error = NoError

\* C25: a run whose batch is empty is not an error: sync() writes nothing to the
\* store, does not return false and does not count the run in failedSyncs.
C25_EmptyRunNotAnError ==
  EmptyRun =>
     /\ PoolUntouched(committed) /\ PoolUntouched(work) /\ Len(log) = 0
     /\ result
     /\ stats.failedSyncs = 0

\* C26: when sync() returns, totalSyncs = successfulSyncs + failedSyncs, and the
\* call has added 1 to totalSyncs and 1 to exactly one of the two others.
C26_TotalIsSumOfOutcomes ==
  SyncReturned =>
     /\ stats.totalSyncs = stats.successfulSyncs + stats.failedSyncs
     /\ stats.totalSyncs = 1
     /\ (stats.successfulSyncs = 1) # (stats.failedSyncs = 1)

(* --------------------------- failure cleanup --------------------------- *)
\* the drop of failure cleanup was the attempt's last statement, and it failed
DropFailed == Len(log) >= 2 /\ LastSent = <<"DROP temp", FALSE>>
\* the statements of the attempt that failed before the drop was sent
FailedBeforeDrop == { n \in 1..(Len(log) - 1) : ~log[n][2] }
Max(S) == CHOOSE n \in S : \A m \in S : m <= n
\* the message of the error that reached the outer catch block: the error of
\* the last statement that failed, or the count mismatch when none failed
OriginalMessage ==
  IF FailedBeforeDrop = {} THEN "Temp table count mismatch"
  ELSE LET name == log[Max(FailedBeforeDrop)][1] IN
       CASE name = "BEGIN SWAP" -> "BEGIN"
         [] name = "COMMIT SWAP" -> "COMMIT"
         [] name = "ROLLBACK SWAP" -> "ROLLBACK"
         [] OTHER -> name

\* C27: when the staging-table drop of failure cleanup fails, the attempt fails
\* with the error that reached the cleanup, not with the drop's error; after
\* the last attempt that is the error sync() records.
C27_DropFailureDoesNotMask ==
  /\ (AttemptFailed /\ DropFailed) =>
        /\ error # NoError
        /\ error.msg = OriginalMessage
        /\ error.call = calls
  /\ (SyncReturned /\ ~result /\ Connected /\ DropFailed) =>
        stats.lastError = OriginalMessage
C27_Witness ==
  /\ SyncReturned /\ ~result /\ Connected /\ DropFailed
  /\ FailedBeforeDrop # {}
  /\ stats.lastError = OriginalMessage

(* ------------------------------- chunking ------------------------------ *)
\* ceil(n / c) for the deduplicated batch and the chunk size of the call
ChunkCount == (Len(cleanRecords) + batchSize - 1) \div batchSize
\* records (jj-1)*c+1 .. min(jj*c, n) of the deduplicated batch
ChunkOf(jj) ==
  [m \in 1..(Min(jj * batchSize, Len(cleanRecords)) - (jj - 1) * batchSize)
     |-> cleanRecords[(jj - 1) * batchSize + m]]
Inserts(count) == [m \in 1..count |-> <<"INSERT", TRUE>>]
\* the statements of the chunks 1..jj, one chunk after the other
RECURSIVE ChunkStatements(_)
ChunkStatements(jj) ==
  IF jj = 0 THEN << <<"CREATE TABLE", TRUE>> >>
  ELSE ChunkStatements(jj - 1) \o << <<"BEGIN", TRUE>> >>
         \o Inserts(Len(ChunkOf(jj))) \o << <<"COMMIT", TRUE>> >>
StagingRows == work[tempTableName].rows
InChunk == queryFn = "swap" /\ pc \in {"insert", "chunk_commit"}
InsertPhaseDone == queryFn = "swap" /\ pc = "swap_begin"

\* C28: with chunk size c >= 1 and n deduplicated records the insert phase of a
\* successful attempt runs ceil(n/c) chunks one after another in batch order,
\* chunk jj holding records (jj-1)*c+1 .. min(jj*c, n) (c rows, except
\* possibly the last), and inserts every record exactly once.
C28_ChunksPartitionTheBatch ==
  /\ InChunk =>
       LET jj == (i \div batchSize) + 1 IN
       /\ i = (jj - 1) * batchSize /\ jj <= ChunkCount
       /\ batch = ChunkOf(jj)
       /\ jj < ChunkCount => Len(batch) = batchSize
       /\ Len(batch) >= 1 /\ Len(batch) <= batchSize
       /\ log = ChunkStatements(jj - 1) \o << <<"BEGIN", TRUE>> >> \o Inserts(j)
       /\ StagingRows = { cleanRecords[m] : m \in 1..(i + j) }
       /\ Cardinality(StagingRows) = i + j
  /\ (queryFn = "swap" /\ pc = "chunk_loop") =>
       /\ i % batchSize = 0
       /\ log = ChunkStatements(Min(i \div batchSize, ChunkCount))
  /\ InsertPhaseDone =>
       /\ log = ChunkStatements(ChunkCount) \o << <<"SELECT COUNT", TRUE>> >>
       /\ Cardinality({ m \in 1..Len(log) : log[m][1] = "INSERT" }) = Len(cleanRecords)
       /\ Cardinality({ m \in 1..Len(log) : log[m][1] = "BEGIN" }) = ChunkCount
       /\ StagingRows = Range(cleanRecords)
       /\ Cardinality(StagingRows) = Len(cleanRecords)
C28_Witness ==
  /\ InsertPhaseDone
  /\ Len(cleanRecords) = 3 /\ batchSize = 2
  /\ Cardinality({ m \in 1..Len(log) : log[m][1] = "BEGIN" }) = 2
  /\ log[6] = <<"BEGIN", TRUE>> /\ log[7] = <<"INSERT", TRUE>>
  /\ log[8] = <<"COMMIT", TRUE>>

(* ----------------------------- transactions ---------------------------- *)
\* C29: every transaction syncProxiesWithSwap begins is closed before the
\* staging-table drop of failure cleanup, before the attempt ends, before a
\* retry starts and before syncProxiesWithSwap returns or fails.
C29_NoTransactionLeftOpen ==
  (queryFn = "swap"
     /\ pc \in {"cleanup", "retry_catch", "retry_loop", "create_temp",
                "verify_count", "disconnect"}) => ~inTxn

(* ------------------------------ termination ---------------------------- *)
CommittedChunks == Cardinality({ m \in 1..Len(log) : log[m] = <<"COMMIT", TRUE>> })

\* C30: for every integer chunk size the chunk loop reaches the end of the
\* batch: every chunk that was committed has moved the loop index forward by
\* at least one record, so that at most Len(cleanRecords) chunks are run.
C30_ChunkLoopReachesEnd ==
  (queryFn = "swap" /\ pc = "chunk_loop") =>
     /\ CommittedChunks <= i
     /\ CommittedChunks <= Len(cleanRecords)

(* ----------------------- ownership of staging tables ------------------- *)
\* the attempt created the staging table it names
CreatedByAttempt == Len(log) > 0 /\ log[1] = <<"CREATE TABLE", TRUE>>

\* C31: an attempt only ever drops a staging table that it created itself: the
\* drop of failure cleanup removes a table only when the CREATE TABLE of the
\* same attempt had succeeded, and never the table of another client.
C31_DropsOnlyOwnStagingTable ==
  [][(pc = "cleanup" /\ pc' = "retry_catch"
        /\ HasTable(work, tempTableName) /\ ~HasTable(work', tempTableName))
       => (CreatedByAttempt /\ tempTableName # otherTemp)]_vars

(* ------------------------- residue of a good call ---------------------- *)
\* the tables of the pool family other than pool that a reader sees
Residue == DOMAIN committed \ {PoolName}

\* C32: when syncProxiesWithSwap has returned its count, every staging or
\* backup table still in the store is one whose drop was rejected; when no
\* drop was rejected, in this attempt or in an earlier failed one, pool is the
\* only table left.
C32_NoResidueAfterSuccess ==
  SwapReturned =>
     /\ ~inTxn /\ work = committed
     /\ HasTable(committed, PoolName)
     /\ Residue \subseteq failedDrops
     /\ failedDrops = {} => DOMAIN committed = {PoolName}
C32_Witness ==
  /\ SwapReturned
  /\ Len(tempNames) = 2 /\ InLog(<<"DROP backup", TRUE>>)
  /\ failedDrops = {}
  /\ faults = 2
  /\ DOMAIN committed = {PoolName}

====
